---- MODULE Spec2Model ----
(***************************************************************************)
(* Model of validate_project.py, the JJYWave project integrity validator.  *)
(* main() checks that the working directory holds JJYWave.xcodeproj and    *)
(* then runs validate_project(), a fixed sequence of checks that appends   *)
(* issues to a list; the exit status is 0 iff that list is empty.          *)
(*                                                                         *)
(* The filesystem is read-only input: the variable fs is fixed by Init and *)
(* never changes.  File contents are sequences of one-character strings.   *)
(* The manifest content is represented by the set of section markers that  *)
(* occur in it, a Swift file by the kind of directory its path lies in.    *)
(***************************************************************************)
EXTENDS Integers, Sequences, FiniteSets, TLC

(***************************************************************************)
(* Bounds of the model.                                                    *)
(***************************************************************************)
\* longest critical-file content explored exhaustively
MaxLen == 5
\* largest deviation of a Swift file count from its usual value
MaxDelta == 1

(***************************************************************************)
(* Fixed lists and constants of validate_project.                          *)
(***************************************************************************)
required_sections ==
    << "Begin PBXBuildFile section",
       "Begin PBXFileReference section",
       "Begin PBXNativeTarget section",
       "Begin PBXProject section" >>

expected_main_swift == 17

\* the test count compared with the main count's constant
expected_test_swift_copied == expected_main_swift

expected_test_swift == 20

required_dirs ==
    << "App",
       "JJYKit/Audio",
       "JJYKit/Frames",
       "JJYKit/Generator",
       "JJYKit/Services",
       "JJYKit/Time",
       "Tests",
       "JJYWaveTests" >>

required_files ==
    << "Base.lproj/Main.storyboard",
       "Localizable.xcstrings",
       "JJYWave.entitlements",
       "README.md" >>

critical_files ==
    << "JJYKit/Generator/JJYAudioGenerator.swift",
       "App/ViewController.swift",
       "App/AppDelegate.swift" >>

(***************************************************************************)
(* Helpers on sequences.                                                   *)
(***************************************************************************)
Range(s) == { s[k] : k \in DOMAIN s }

\* str.find(ch, from): the first index >= from holding ch, 0 when there is none
IndexOf(s, ch, from) ==
    LET hits == { j \in from..Len(s) : s[j] = ch }
    IN  IF hits = {} THEN 0 ELSE CHOOSE j \in hits : \A k \in hits : j <= k

\* str.count(ch)
Count(s, ch) == Cardinality({ k \in 1..Len(s) : s[k] = ch })

(***************************************************************************)
(* The four substitutions that strip strings and comments (lines 135-138). *)
(* Each is re.sub: leftmost matches, left to right, never overlapping.     *)
(***************************************************************************)
RECURSIVE SubQuotedFrom(_, _, _)
\* re.sub(q [^q]* q, qq, s) from position i on
SubQuotedFrom(s, q, i) ==
    IF i > Len(s) THEN << >>
    ELSE IF s[i] = q /\ IndexOf(s, q, i + 1) # 0
         THEN << q, q >> \o SubQuotedFrom(s, q, IndexOf(s, q, i + 1) + 1)
         ELSE << s[i] >> \o SubQuotedFrom(s, q, i + 1)

\* re.sub(r'"[^"]*"', '""', content)
SubDoubleQuoted(s) == SubQuotedFrom(s, "\"", 1)

\* re.sub(r"'[^']*'", "''", clean_content)
SubSingleQuoted(s) == SubQuotedFrom(s, "'", 1)

RECURSIVE SubLineCommentFrom(_, _)
\* re.sub(r'//.*', '', s) from position i on; '.' does not match a newline
SubLineCommentFrom(s, i) ==
    IF i > Len(s) THEN << >>
    ELSE IF s[i] = "/" /\ i + 1 <= Len(s) /\ s[i + 1] = "/"
         THEN IF IndexOf(s, "\n", i + 2) = 0
              THEN << >>
              ELSE SubLineCommentFrom(s, IndexOf(s, "\n", i + 2))
         ELSE << s[i] >> \o SubLineCommentFrom(s, i + 1)

\* SubLineComment with '.' matching a newline too: all from // on is dropped
SubLineCommentDotAll(s) ==
    LET hits == { j \in 1..(Len(s) - 1) : s[j] = "/" /\ s[j + 1] = "/" }
    IN  IF hits = {} THEN s
        ELSE SubSeq(s, 1, (CHOOSE j \in hits : \A k \in hits : j <= k) - 1)

SubLineComment(s) == SubLineCommentFrom(s, 1)

\* the first index j >= from with s[j] = "*" and s[j+1] = "/", 0 when none
BlockEnd(s, from) ==
    LET hits == { j \in from..(Len(s) - 1) : s[j] = "*" /\ s[j + 1] = "/" }
    IN  IF hits = {} THEN 0 ELSE CHOOSE j \in hits : \A k \in hits : j <= k

RECURSIVE SubBlockCommentFrom(_, _)
\* re.sub(r'/\*.*?\*/', '', s, flags=re.DOTALL) from position i on
SubBlockCommentFrom(s, i) ==
    IF i > Len(s) THEN << >>
    ELSE IF s[i] = "/" /\ i + 1 <= Len(s) /\ s[i + 1] = "*"
            /\ BlockEnd(s, i + 2) # 0
         THEN SubBlockCommentFrom(s, BlockEnd(s, i + 2) + 2)
         ELSE << s[i] >> \o SubBlockCommentFrom(s, i + 1)

SubBlockComment(s) == SubBlockCommentFrom(s, 1)

\* the text whose braces are counted
clean_content(content) ==
    SubBlockComment(SubLineComment(SubSingleQuoted(SubDoubleQuoted(content))))

\* clean_content.count('{') != clean_content.count('}')
Unbalanced(content) ==
    Count(clean_content(content), "{") # Count(clean_content(content), "}")

(***************************************************************************)
(* The filesystem the validator reads.                                     *)
(*   xcodeproj  JJYWave.xcodeproj exists under the working directory       *)
(*   pbxproj    "absent", "ok" (readable) or the error reading it raises   *)
(*   sections   the section markers that occur in the manifest content     *)
(*   swift      the number of *.swift files per kind of location           *)
(*   dirs       the required directories that exist                        *)
(*   files      the required resource files that exist                     *)
(*   critical   per critical file: "absent", "ok" with its content, or the *)
(*              error reading it raises                                    *)
(***************************************************************************)
ReadErrors == { "Permission denied", "invalid start byte" }

\* kinds of location of a Swift file, by the markers its path contains
SwiftLocations == { "other", "Tests", "JJYWaveTests" }

\* "/Tests/" in str(f) or "/JJYWaveTests/" in str(f)
IsTestPath(loc) == loc = "Tests" \/ loc = "JJYWaveTests"

RECURSIVE SumOver(_, _)
SumOver(f, S) ==
    IF S = {} THEN 0
    ELSE LET x == CHOOSE y \in S : TRUE IN f[x] + SumOver(f, S \ {x})

Alphabet == { "\"", "'", "/", "*", "\n", "{", "}" }

\* every text of at most n characters
Texts(n) == UNION { [1..k -> Alphabet] : k \in 0..n }

\* a few contents: balanced, unbalanced, a brace in a string, in a comment
SampleContents ==
    { << "{", "}" >>,
      << "{", "{", "}" >>,
      << "\"", "{", "\"" >>,
      << "/", "/", "{" >> }

Absent == [status |-> "absent", content |-> << >>]

Unreadable(e) == [status |-> e, content |-> << >>]

Readable(c) == [status |-> "ok", content |-> c]

CriticalStates(contents) ==
    { Absent } \cup { Unreadable(e) : e \in ReadErrors }
               \cup { Readable(c) : c \in contents }

\* the directory a critical file lies in
ParentDir(file) ==
    IF file = "JJYKit/Generator/JJYAudioGenerator.swift"
    THEN "JJYKit/Generator"
    ELSE "App"

\* what every filesystem satisfies: a file exists only inside an existing directory
Consistent(f) ==
    /\ f.pbxproj # "absent" => f.xcodeproj
    /\ \A k \in DOMAIN critical_files :
          f.critical[k].status # "absent"
             => ParentDir(critical_files[k]) \in f.dirs

UsualSwift == [loc \in SwiftLocations |->
                 CASE loc = "other" -> 17
                   [] loc = "Tests" -> 12
                   [] OTHER -> 8]

\* Swift file counts within MaxDelta of the usual ones
NearbySwift ==
    { [loc \in SwiftLocations |-> UsualSwift[loc] + d[loc]] :
         d \in [SwiftLocations -> (0 - MaxDelta)..MaxDelta] }

\* The values of one part of the filesystem: all of them when that part is the
\* one explored exhaustively, two of them (intact and damaged) otherwise.
PartValues(part, varied) ==
    CASE part = "manifest" ->
            IF varied = part
            THEN { << FALSE, "absent" >>, << TRUE, "absent" >>, << TRUE, "ok" >> }
                 \cup { << TRUE, e >> : e \in ReadErrors }
            ELSE { << TRUE, "ok" >> }
      [] part = "sections" ->
            IF varied = part
            THEN SUBSET Range(required_sections)
            ELSE { Range(required_sections),
                   Range(required_sections)
                      \ { required_sections[2], required_sections[4] } }
      [] part = "swift" ->
            IF varied = part
            THEN NearbySwift
            ELSE { UsualSwift,
                   [UsualSwift EXCEPT !["other"] = 16, !["JJYWaveTests"] = 9] }
      [] part = "dirs" ->
            IF varied = part
            THEN SUBSET Range(required_dirs)
            ELSE { Range(required_dirs),
                   Range(required_dirs) \ { "JJYKit/Frames", "Tests" } }
      [] part = "files" ->
            IF varied = part
            THEN SUBSET Range(required_files)
            ELSE { Range(required_files),
                   Range(required_files) \ { "Localizable.xcstrings" } }
      [] part = "critical" ->
            IF varied = part
            THEN [DOMAIN critical_files -> CriticalStates(SampleContents)]
            ELSE { [k \in DOMAIN critical_files |-> Absent],
                   [k \in DOMAIN critical_files |->
                       IF k = 2 THEN Readable(<< "{" >>) ELSE Absent] }

Parts == { "manifest", "sections", "swift", "dirs", "files", "critical" }

Project(m, s, w, d, r, c) ==
    [xcodeproj |-> m[1], pbxproj |-> m[2], sections |-> s, swift |-> w,
     dirs |-> d, files |-> r, critical |-> c]

\* f is a project directory the validator is run on: one part takes any of
\* its values, the others are intact or damaged
IsProject(f) ==
    \E varied \in Parts :
       \E m \in PartValues("manifest", varied),
          s \in PartValues("sections", varied),
          w \in PartValues("swift", varied),
          d \in PartValues("dirs", varied),
          r \in PartValues("files", varied),
          c \in PartValues("critical", varied) :
             /\ f = Project(m, s, w, d, r, c)
             /\ Consistent(f)

\* f is an intact project whose second critical file holds any text of at most
\* MaxLen characters with an opening brace in it
IsBraceProject(f) ==
    \E t \in Texts(MaxLen) :
       /\ \E k \in DOMAIN t : t[k] = "{"
       /\ f = Project(<< TRUE, "ok" >>, Range(required_sections), UsualSwift,
                      Range(required_dirs), Range(required_files),
                      [k \in DOMAIN critical_files |->
                          IF k = 2 THEN Readable(t) ELSE Absent])

(***************************************************************************)
(* The state of one run.                                                   *)
(*   fs             the filesystem (never written)                         *)
(*   pc             the statement about to run                             *)
(*   issues         validate_project's list of issues                      *)
(*   syntax_issues  the entries collected by the syntax check              *)
(*   file_index     the critical file the syntax loop is at                *)
(*   out            the lines printed so far                               *)
(*   exit_status    what main returned, -1 while it runs                   *)
(***************************************************************************)
VARIABLES fs, pc, issues, syntax_issues, file_index, out, exit_status

vars == << fs, pc, issues, syntax_issues, file_index, out, exit_status >>

\* an issue; fields an issue has no use for stay empty or 0
Issue(kind, error, items, entries, expected, actual) ==
    [kind |-> kind, error |-> error, items |-> items, entries |-> entries,
     expected |-> expected, actual |-> actual]

ProjectMissingIssue ==
    Issue("project.pbxproj missing", "", << >>, << >>, 0, 0)

CannotReadIssue(e) ==
    Issue("Cannot read project.pbxproj", e, << >>, << >>, 0, 0)

MissingSectionsIssue(missing) ==
    Issue("Missing project sections", "", missing, << >>, 0, 0)

MainCountIssue(expected, found) ==
    Issue("Expected main Swift files", "", << >>, << >>, expected, found)

TestCountIssue(expected, found) ==
    Issue("Expected test Swift files", "", << >>, << >>, expected, found)

MissingDirsIssue(missing) ==
    Issue("Missing directories", "", missing, << >>, 0, 0)

MissingFilesIssue(missing) ==
    Issue("Missing resource files", "", missing, << >>, 0, 0)

SyntaxIssue(entries) ==
    Issue("Syntax issues in critical files", "", << >>, entries, 0, 0)

\* one entry of the syntax check: "<file>: Unbalanced braces" or
\* "<file>: Read error - <e>"
SyntaxEntry(file, what, error) == [file |-> file, what |-> what, error |-> error]

\* a printed line: a fixed text, a text with a count, or an issue
Line(text) == [text |-> text, count |-> 0, issue |-> << >>]

CountLine(text, n) == [text |-> text, count |-> n, issue |-> << >>]

IssueLine(issue) == [text |-> "   ", count |-> 0, issue |-> << issue >>]

\* Missing that stops at the first missing item
MissingFirst(required, present) ==
    LET all == SelectSeq(required, LAMBDA x : x \notin present)
    IN  IF all = << >> THEN << >> ELSE << all[1] >>

\* the items of a fixed list that are not present, in the order of the list
Missing(required, present) ==
    SelectSeq(required, LAMBDA x : x \notin present)

\* len(main_swift): the Swift files outside the test directories
main_swift_count(f) ==
    SumOver(f.swift, { loc \in SwiftLocations : ~IsTestPath(loc) })

\* len(test_swift): the Swift files inside a test directory
test_swift_count(f) ==
    SumOver(f.swift, { loc \in SwiftLocations : IsTestPath(loc) })

\* ExitStatus with the test "more than one issue"
ExitStatusOffByOne(found) == IF Len(found) <= 1 THEN 0 ELSE 1

\* what main returns for a list of issues
ExitStatus(found) == IF found = << >> THEN 0 ELSE 1

\* the summary main prints for a list of issues
Summary(found) ==
    IF found = << >>
    THEN << Line("PROJECT VALIDATION PASSED"),
            Line("No corruption or structural issues detected"),
            Line("Project is ready for development") >>
    ELSE << Line("PROJECT VALIDATION FAILED"), Line("Issues detected:") >>
         \o [k \in DOMAIN found |-> IssueLine(found[k])]
         \o << Line("Consider comparing with a known good project state") >>

Init ==
    /\ IsProject(fs)
    /\ pc = "main"
    /\ issues = << >>
    /\ syntax_issues = << >>
    /\ file_index = 0
    /\ out = << >>
    /\ exit_status = -1

\* MainStart without the return after the directory-mismatch message
MainStartNoReturn ==
    /\ pc = "main"
    /\ IF ~fs.xcodeproj
       THEN out' = out \o << Line("Not in JJYWave project directory"),
                             Line("Please run this script from the JJYWave project root") >>
       ELSE UNCHANGED out
    /\ pc' = "validate"
    /\ UNCHANGED << fs, issues, syntax_issues, file_index, exit_status >>

\* main, up to the call of validate_project
MainStart ==
    /\ pc = "main"
    /\ IF ~fs.xcodeproj
       THEN /\ out' = out \o << Line("Not in JJYWave project directory"),
                                Line("Please run this script from the JJYWave project root") >>
            /\ exit_status' = 1
            /\ pc' = "done"
       ELSE /\ pc' = "validate"
            /\ UNCHANGED << out, exit_status >>
    /\ UNCHANGED << fs, issues, syntax_issues, file_index >>

\* CheckProjectFile without the return after the missing-manifest issue
CheckProjectFileNoReturn ==
    /\ pc = "validate"
    /\ out' = out \o << Line("JJYWave Project Integrity Validator"),
                        Line("=====================================") >>
    /\ issues' = IF fs.pbxproj = "absent" THEN << ProjectMissingIssue >> ELSE << >>
    /\ pc' = "read_pbxproj"
    /\ UNCHANGED << fs, syntax_issues, file_index, exit_status >>

\* 1. the project file exists
CheckProjectFile ==
    /\ pc = "validate"
    /\ out' = out \o << Line("JJYWave Project Integrity Validator"),
                        Line("=====================================") >>
    /\ IF fs.pbxproj = "absent"
       THEN /\ issues' = << ProjectMissingIssue >>
            /\ pc' = "report"
       ELSE /\ issues' = << >>
            /\ pc' = "read_pbxproj"
    /\ UNCHANGED << fs, syntax_issues, file_index, exit_status >>

\* ReadProjectFile without the return after the read error
ReadProjectFileNoReturn ==
    /\ pc = "read_pbxproj"
    /\ IF fs.pbxproj = "ok"
       THEN /\ out' = Append(out, Line("Project file readable"))
            /\ UNCHANGED issues
       ELSE /\ issues' = Append(issues, CannotReadIssue(fs.pbxproj))
            /\ UNCHANGED out
    /\ pc' = "check_sections"
    /\ UNCHANGED << fs, syntax_issues, file_index, exit_status >>

\* 1. the project file is readable
ReadProjectFile ==
    /\ pc = "read_pbxproj"
    /\ IF fs.pbxproj = "ok"
       THEN /\ out' = Append(out, Line("Project file readable"))
            /\ pc' = "check_sections"
            /\ UNCHANGED issues
       ELSE /\ issues' = Append(issues, CannotReadIssue(fs.pbxproj))
            /\ pc' = "report"
            /\ UNCHANGED out
    /\ UNCHANGED << fs, syntax_issues, file_index, exit_status >>

\* 2. the PBX sections
CheckSections ==
    /\ pc = "check_sections"
    /\ LET missing_sections == Missing(required_sections, fs.sections)
       IN  IF missing_sections # << >>
           THEN /\ issues' = Append(issues, MissingSectionsIssue(missing_sections))
                /\ UNCHANGED out
           ELSE /\ out' = Append(out, Line("All required PBX sections present"))
                /\ UNCHANGED issues
    /\ pc' = "check_main_swift"
    /\ UNCHANGED << fs, syntax_issues, file_index, exit_status >>

\* 3. the number of main Swift files
CheckMainSwift ==
    /\ pc = "check_main_swift"
    /\ IF main_swift_count(fs) # expected_main_swift
       THEN /\ issues' = Append(issues,
                   MainCountIssue(expected_main_swift, main_swift_count(fs)))
            /\ UNCHANGED out
       ELSE /\ out' = Append(out, CountLine("Main Swift files", main_swift_count(fs)))
            /\ UNCHANGED issues
    /\ pc' = "check_test_swift"
    /\ UNCHANGED << fs, syntax_issues, file_index, exit_status >>

\* CheckTestSwift run only when the main count matched
CheckTestSwiftElif ==
    /\ pc = "check_test_swift"
    /\ IF main_swift_count(fs) # expected_main_swift
       THEN UNCHANGED << issues, out >>
       ELSE IF test_swift_count(fs) # expected_test_swift
            THEN /\ issues' = Append(issues,
                        TestCountIssue(expected_test_swift, test_swift_count(fs)))
                 /\ UNCHANGED out
            ELSE /\ out' = Append(out, CountLine("Test Swift files", test_swift_count(fs)))
                 /\ UNCHANGED issues
    /\ pc' = "check_dirs"
    /\ UNCHANGED << fs, syntax_issues, file_index, exit_status >>

\* 3. the number of test Swift files
CheckTestSwift ==
    /\ pc = "check_test_swift"
    /\ IF test_swift_count(fs) # expected_test_swift
       THEN /\ issues' = Append(issues,
                   TestCountIssue(expected_test_swift, test_swift_count(fs)))
            /\ UNCHANGED out
       ELSE /\ out' = Append(out, CountLine("Test Swift files", test_swift_count(fs)))
            /\ UNCHANGED issues
    /\ pc' = "check_dirs"
    /\ UNCHANGED << fs, syntax_issues, file_index, exit_status >>

\* 4. the key directories
CheckDirs ==
    /\ pc = "check_dirs"
    /\ LET missing_dirs == Missing(required_dirs, fs.dirs)
       IN  IF missing_dirs # << >>
           THEN /\ issues' = Append(issues, MissingDirsIssue(missing_dirs))
                /\ UNCHANGED out
           ELSE /\ out' = Append(out, Line("All required directories present"))
                /\ UNCHANGED issues
    /\ pc' = "check_files"
    /\ UNCHANGED << fs, syntax_issues, file_index, exit_status >>

\* CheckFiles run only when no directory was missing
CheckFilesElif ==
    /\ pc = "check_files"
    /\ LET missing_files == Missing(required_files, fs.files)
       IN  IF Missing(required_dirs, fs.dirs) # << >>
           THEN UNCHANGED << issues, out >>
           ELSE IF missing_files # << >>
                THEN /\ issues' = Append(issues, MissingFilesIssue(missing_files))
                     /\ UNCHANGED out
                ELSE /\ out' = Append(out, Line("All key resource files present"))
                     /\ UNCHANGED issues
    /\ pc' = "syntax_begin"
    /\ UNCHANGED << fs, syntax_issues, file_index, exit_status >>

\* 5. the key resource files
CheckFiles ==
    /\ pc = "check_files"
    /\ LET missing_files == Missing(required_files, fs.files)
       IN  IF missing_files # << >>
           THEN /\ issues' = Append(issues, MissingFilesIssue(missing_files))
                /\ UNCHANGED out
           ELSE /\ out' = Append(out, Line("All key resource files present"))
                /\ UNCHANGED issues
    /\ pc' = "syntax_begin"
    /\ UNCHANGED << fs, syntax_issues, file_index, exit_status >>

\* 6. the syntax check starts with no entries, at the first critical file
SyntaxBegin ==
    /\ pc = "syntax_begin"
    /\ syntax_issues' = << >>
    /\ file_index' = 1
    /\ pc' = "syntax_file"
    /\ UNCHANGED << fs, issues, out, exit_status >>

\* SyntaxEntries without the exists() test: opening an absent file fails
SyntaxEntriesNoExists(file_path, c) ==
    IF c.status = "ok"
    THEN IF Unbalanced(c.content)
         THEN << SyntaxEntry(file_path, "Unbalanced braces", "") >>
         ELSE << >>
    ELSE << SyntaxEntry(file_path, "Read error", c.status) >>

\* what one pass of the syntax loop adds for a critical file in state c
SyntaxEntries(file_path, c) ==
    IF c.status = "absent" THEN << >>
    ELSE IF c.status = "ok"
         THEN IF Unbalanced(c.content)
              THEN << SyntaxEntry(file_path, "Unbalanced braces", "") >>
              ELSE << >>
         ELSE << SyntaxEntry(file_path, "Read error", c.status) >>

\* 6. one pass of the loop over the critical files
SyntaxFile ==
    /\ pc = "syntax_file"
    /\ file_index \in DOMAIN critical_files
    /\ syntax_issues' = syntax_issues
          \o SyntaxEntries(critical_files[file_index], fs.critical[file_index])
    /\ file_index' = file_index + 1
    /\ pc' = IF file_index = Len(critical_files) THEN "syntax_report" ELSE "syntax_file"
    /\ UNCHANGED << fs, issues, out, exit_status >>

\* 6. the entries become one issue; validate_project returns
SyntaxReport ==
    /\ pc = "syntax_report"
    /\ IF syntax_issues # << >>
       THEN /\ issues' = Append(issues, SyntaxIssue(syntax_issues))
            /\ UNCHANGED out
       ELSE /\ out' = Append(out, Line("Critical files syntax check passed"))
            /\ UNCHANGED issues
    /\ pc' = "report"
    /\ UNCHANGED << fs, syntax_issues, file_index, exit_status >>

\* main, after validate_project returned
MainReport ==
    /\ pc = "report"
    /\ out' = out \o << Line("==================================================") >>
                  \o Summary(issues)
    /\ exit_status' = ExitStatus(issues)
    /\ pc' = "done"
    /\ UNCHANGED << fs, issues, syntax_issues, file_index >>

Next ==
    \/ MainStart
    \/ CheckProjectFile
    \/ ReadProjectFile
    \/ CheckSections
    \/ CheckMainSwift
    \/ CheckTestSwift
    \/ CheckDirs
    \/ CheckFiles
    \/ SyntaxBegin
    \/ SyntaxFile
    \/ SyntaxReport
    \/ MainReport

Spec == Init /\ [][Next]_vars

\* the same program, run also on the projects whose critical file holds any text
InitBraces ==
    /\ IsProject(fs) \/ IsBraceProject(fs)
    /\ pc = "main"
    /\ issues = << >>
    /\ syntax_issues = << >>
    /\ file_index = 0
    /\ out = << >>
    /\ exit_status = -1

SpecBraces == InitBraces /\ [][Next]_vars

(***************************************************************************)
(* Vocabulary of the properties.                                           *)
(***************************************************************************)
ManifestReadable == fs.xcodeproj /\ fs.pbxproj = "ok"

\* validate_project has returned
Returned == pc \in { "report", "done" }

Printed(text) == \E k \in DOMAIN out : out[k].text = text

IssuesOfKind(kind) == { k \in DOMAIN issues : issues[k].kind = kind }

\* the position of x in the list
PositionIn(list, x) == CHOOSE k \in DOMAIN list : list[k] = x

\* the statements of validate_project after the manifest was read
LaterChecks ==
    { "check_sections", "check_main_swift", "check_test_swift", "check_dirs",
      "check_files", "syntax_begin", "syntax_file", "syntax_report" }

\* the lines the checks print on success
StatusLines ==
    { "Project file readable", "All required PBX sections present",
      "Main Swift files", "Test Swift files", "All required directories present",
      "All key resource files present", "Critical files syntax check passed" }

\* the file counts, read off the filesystem
MainFiles == fs.swift["other"]

TestFiles == fs.swift["Tests"] + fs.swift["JJYWaveTests"]

\* the six checks in the order they run, by the kind of issue each appends
CheckOrder ==
    << "Missing project sections", "Expected main Swift files",
       "Expected test Swift files", "Missing directories",
       "Missing resource files", "Syntax issues in critical files" >>

SuccessLine(kind) ==
    CASE kind = "Missing project sections" -> "All required PBX sections present"
      [] kind = "Expected main Swift files" -> "Main Swift files"
      [] kind = "Expected test Swift files" -> "Test Swift files"
      [] kind = "Missing directories" -> "All required directories present"
      [] kind = "Missing resource files" -> "All key resource files present"
      [] OTHER -> "Critical files syntax check passed"

\* whether a check fails on the filesystem
Fails(kind) ==
    CASE kind = "Missing project sections" ->
            \E x \in Range(required_sections) : x \notin fs.sections
      [] kind = "Expected main Swift files" -> MainFiles # 17
      [] kind = "Expected test Swift files" -> TestFiles # 20
      [] kind = "Missing directories" ->
            \E x \in Range(required_dirs) : x \notin fs.dirs
      [] kind = "Missing resource files" ->
            \E x \in Range(required_files) : x \notin fs.files
      [] OTHER ->
            \E k \in DOMAIN critical_files :
               \/ fs.critical[k].status \in ReadErrors
               \/ fs.critical[k].status = "ok" /\ Unbalanced(fs.critical[k].content)

(***************************************************************************)
(* C1.  The exit status is 0 exactly when JJYWave.xcodeproj exists and     *)
(* validate_project returned no issue; otherwise it is 1.  Until main      *)
(* returns there is no exit status.                                        *)
(***************************************************************************)
C1_ExitStatus ==
    IF pc = "done"
    THEN /\ exit_status \in { 0, 1 }
         /\ exit_status = 0 <=> (fs.xcodeproj /\ issues = << >>)
    ELSE exit_status = -1

\* runs that end with each status after validate_project ran
C1_Witness ==
    /\ pc = "done"
    /\ fs.xcodeproj
    /\ exit_status = 1
    /\ Len(issues) = 1

(***************************************************************************)
(* C2.  With the manifest file missing, validate_project returns the       *)
(* manifest issue alone, no later check is reached, no status line is      *)
(* printed, and the process exits 1, whatever else is wrong.               *)
(***************************************************************************)
C2_ManifestMissing ==
    (fs.xcodeproj /\ fs.pbxproj = "absent") =>
       /\ pc \notin LaterChecks \cup { "read_pbxproj" }
       /\ \A t \in StatusLines : ~Printed(t)
       /\ Returned => issues = << ProjectMissingIssue >>
       /\ pc = "done" => exit_status = 1

C2_Witness ==
    /\ pc = "done"
    /\ fs.xcodeproj /\ fs.pbxproj = "absent"
    /\ Fails("Missing directories") /\ Fails("Missing resource files")
    /\ Fails("Expected main Swift files") /\ Fails("Syntax issues in critical files")

(***************************************************************************)
(* C3.  With the manifest present but unreadable, validate_project returns *)
(* one issue that carries the error message, no check from the section     *)
(* markers on is reached, and "Project file readable" is never printed.    *)
(***************************************************************************)
C3_ManifestUnreadable ==
    (fs.xcodeproj /\ fs.pbxproj \in ReadErrors) =>
       /\ pc \notin LaterChecks
       /\ \A t \in StatusLines : ~Printed(t)
       /\ Returned => /\ Len(issues) = 1
                      /\ issues[1].kind = "Cannot read project.pbxproj"
                      /\ issues[1].error = fs.pbxproj

C3_Witness ==
    /\ pc = "done"
    /\ fs.pbxproj = "invalid start byte"
    /\ Fails("Missing project sections") /\ Fails("Missing directories")

(***************************************************************************)
(* C4.  A project with a readable manifest holding the four markers, 17    *)
(* main and 20 test Swift files, the eight directories, the four resource  *)
(* files and every critical file absent or balanced after stripping gets   *)
(* the empty list, and the process exits 0.                                *)
(***************************************************************************)
Intact ==
    /\ ManifestReadable
    /\ fs.sections = Range(required_sections)
    /\ MainFiles = 17 /\ TestFiles = 20
    /\ fs.dirs = Range(required_dirs)
    /\ fs.files = Range(required_files)
    /\ \A k \in DOMAIN critical_files :
          \/ fs.critical[k].status = "absent"
          \/ fs.critical[k].status = "ok" /\ ~Unbalanced(fs.critical[k].content)

C4_IntactPasses ==
    Intact => /\ issues = << >>
              /\ pc = "done" => exit_status = 0

\* an intact project with a present critical file whose only brace is in a string
C4_Witness ==
    /\ pc = "done"
    /\ Intact
    /\ fs.critical[1] = Readable(<< "\"", "{", "\"" >>)
    /\ fs.critical[3] = Absent

(***************************************************************************)
(* C5.  With a readable manifest the two count checks do not depend on     *)
(* each other: there is a main-count issue, saying 17 expected and m       *)
(* found, iff m # 17, and a test-count issue, saying 20 expected and t     *)
(* found, iff t # 20; a count that matches is reported by its status line. *)
(***************************************************************************)
C5_CountChecks ==
    (ManifestReadable /\ Returned) =>
       /\ Cardinality(IssuesOfKind("Expected main Swift files"))
             = IF MainFiles # 17 THEN 1 ELSE 0
       /\ \A k \in IssuesOfKind("Expected main Swift files") :
             issues[k].expected = 17 /\ issues[k].actual = MainFiles
       /\ Printed("Main Swift files") <=> MainFiles = 17
       /\ Cardinality(IssuesOfKind("Expected test Swift files"))
             = IF TestFiles # 20 THEN 1 ELSE 0
       /\ \A k \in IssuesOfKind("Expected test Swift files") :
             issues[k].expected = 20 /\ issues[k].actual = TestFiles
       /\ Printed("Test Swift files") <=> TestFiles = 20

\* 16 main files and a wrong test count, each reported
C5_Witness ==
    /\ pc = "done"
    /\ ManifestReadable
    /\ MainFiles = 16 /\ TestFiles = 21
    /\ \E k \in DOMAIN issues : issues[k].expected = 17 /\ issues[k].actual = 16
    /\ \E k \in DOMAIN issues : issues[k].expected = 20 /\ issues[k].actual = 21

(***************************************************************************)
(* C6.  Each presence check (section markers, directories, resource        *)
(* files), the manifest being readable: nothing missing gives no issue and *)
(* the status line; otherwise one issue, listing exactly the missing items *)
(* in the order of the fixed list, and no status line.                     *)
(***************************************************************************)
PresenceCheck(kind, required, present) ==
    LET missing == Range(required) \ present
        found == IssuesOfKind(kind)
    IN  IF missing = {}
        THEN found = {} /\ Printed(SuccessLine(kind))
        ELSE /\ Cardinality(found) = 1
             /\ ~Printed(SuccessLine(kind))
             /\ \A k \in found :
                   LET items == issues[k].items
                   IN  /\ Range(items) = missing
                       /\ Len(items) = Cardinality(missing)
                       /\ \A a, b \in DOMAIN items :
                             a < b => PositionIn(required, items[a])
                                         < PositionIn(required, items[b])

C6_PresenceChecks ==
    (ManifestReadable /\ Returned) =>
       /\ PresenceCheck("Missing project sections", required_sections, fs.sections)
       /\ PresenceCheck("Missing directories", required_dirs, fs.dirs)
       /\ PresenceCheck("Missing resource files", required_files, fs.files)

\* two directories missing, listed in one issue
C6_Witness ==
    /\ pc = "done"
    /\ ManifestReadable
    /\ fs.dirs = Range(required_dirs) \ { "JJYKit/Audio", "JJYWaveTests" }
    /\ \E k \in DOMAIN issues : issues[k].items = << "JJYKit/Audio", "JJYWaveTests" >>

(***************************************************************************)
(* Strings and comments of a text, delimited in one pass from left to      *)
(* right: a quote opens a literal when the same quote follows, // opens a  *)
(* comment up to the end of the line, /* one up to the next */.            *)
(***************************************************************************)
Repeat(x, n) == [k \in 1..n |-> x]

RECURSIVE LexFrom(_, _)
LexFrom(s, i) ==
    IF i > Len(s) THEN << >>
    ELSE IF s[i] = "\"" /\ IndexOf(s, "\"", i + 1) # 0
    THEN Repeat("dq", IndexOf(s, "\"", i + 1) - i + 1)
            \o LexFrom(s, IndexOf(s, "\"", i + 1) + 1)
    ELSE IF s[i] = "'" /\ IndexOf(s, "'", i + 1) # 0
    THEN Repeat("sq", IndexOf(s, "'", i + 1) - i + 1)
            \o LexFrom(s, IndexOf(s, "'", i + 1) + 1)
    ELSE IF s[i] = "/" /\ i + 1 <= Len(s) /\ s[i + 1] = "/"
    THEN LET end == IF IndexOf(s, "\n", i + 2) = 0
                    THEN Len(s) + 1 ELSE IndexOf(s, "\n", i + 2)
         IN  Repeat("lc", end - i) \o LexFrom(s, end)
    ELSE IF s[i] = "/" /\ i + 1 <= Len(s) /\ s[i + 1] = "*" /\ BlockEnd(s, i + 2) # 0
    THEN Repeat("bc", BlockEnd(s, i + 2) + 2 - i) \o LexFrom(s, BlockEnd(s, i + 2) + 2)
    ELSE << "code" >> \o LexFrom(s, i + 1)

\* per position of s: "code", or the kind of literal or comment it lies in
Lex(s) == LexFrom(s, 1)

\* no double quote inside a single-quoted literal or a comment, no single quote
\* inside a comment, no // starting inside a block comment
Separated(s) ==
    LET cls == Lex(s)
    IN  \A p \in DOMAIN s :
           /\ s[p] = "\"" => cls[p] \notin { "sq", "lc", "bc" }
           /\ s[p] = "'" => cls[p] \notin { "lc", "bc" }
           /\ (s[p] = "/" /\ p + 1 <= Len(s) /\ s[p + 1] = "/") => cls[p] # "bc"

\* the syntax issue names critical file k as unbalanced
ReportedUnbalanced(k) ==
    \E n \in IssuesOfKind("Syntax issues in critical files") :
       \E e \in DOMAIN issues[n].entries :
          /\ issues[n].entries[e].file = critical_files[k]
          /\ issues[n].entries[e].what = "Unbalanced braces"

\* for every opening brace of s that is extra (the braces outside strings and
\* comments balance without it): the file is reported iff that brace lies
\* outside every string and comment
ExtraBraceRule(s, k) ==
    LET cls == Lex(s)
        opening == Cardinality({ q \in DOMAIN s : s[q] = "{" /\ cls[q] = "code" })
        closing == Cardinality({ q \in DOMAIN s : s[q] = "}" /\ cls[q] = "code" })
    IN  \A p \in DOMAIN s :
           (/\ s[p] = "{"
            /\ opening - (IF cls[p] = "code" THEN 1 ELSE 0) = closing)
              => (ReportedUnbalanced(k) <=> cls[p] = "code")

C8_NotInProject ==
    ~fs.xcodeproj =>
       /\ pc \in { "main", "done" }
       /\ issues = << >>
       /\ pc = "done" =>
             /\ exit_status = 1
             /\ out = << Line("Not in JJYWave project directory"),
                         Line("Please run this script from the JJYWave project root") >>

C8_Witness ==
    /\ pc = "done"
    /\ ~fs.xcodeproj
    /\ Fails("Missing directories")

(***************************************************************************)
(* C9.  With a readable manifest every later check runs whatever the       *)
(* earlier ones found: a failing check adds one issue and prints no status *)
(* line, a passing one prints its status line and adds no issue, and the   *)
(* returned issues are those of the failing checks in the order of the     *)
(* checks, at most six.                                                    *)
(***************************************************************************)
C9_IndependentChecks ==
    (ManifestReadable /\ Returned) =>
       /\ [k \in DOMAIN issues |-> issues[k].kind] = SelectSeq(CheckOrder, Fails)
       /\ Len(issues) <= 6
       /\ \A j \in DOMAIN CheckOrder :
             Printed(SuccessLine(CheckOrder[j])) <=> ~Fails(CheckOrder[j])

\* all six checks fail
C9_Witness ==
    /\ pc = "done"
    /\ ManifestReadable
    /\ Len(issues) = 6

(***************************************************************************)
(* C10.  In the syntax check an absent critical file adds nothing, a read  *)
(* error on a present one becomes an entry of the one syntax issue, with   *)
(* the error text, and the other files are checked all the same; the loop  *)
(* goes on file by file to the report, and the issues of the earlier       *)
(* checks are kept as they were.                                           *)
(***************************************************************************)
SyntaxEntriesOf(k) ==
    { << n, e >> \in (DOMAIN issues) \X (1..Len(critical_files)) :
         /\ issues[n].kind = "Syntax issues in critical files"
         /\ e \in DOMAIN issues[n].entries
         /\ issues[n].entries[e].file = critical_files[k] }

C10_EntriesRight ==
    (ManifestReadable /\ Returned) =>
       /\ Cardinality(IssuesOfKind("Syntax issues in critical files")) <= 1
       /\ \A k \in DOMAIN critical_files :
             LET c == fs.critical[k]
                 got == SyntaxEntriesOf(k)
             IN  /\ c.status = "absent" => got = {}
                 /\ c.status \in ReadErrors =>
                       /\ Cardinality(got) = 1
                       /\ \A x \in got :
                             /\ issues[x[1]].entries[x[2]].what = "Read error"
                             /\ issues[x[1]].entries[x[2]].error = c.status
                 /\ c.status = "ok" =>
                       Cardinality(got) = IF Unbalanced(c.content) THEN 1 ELSE 0

\* a step of the syntax check keeps the issues of the earlier checks and leads
\* on: from the loop to the loop, at a file yet to check, or to the report,
\* and from the report to the return
C10_LoopStep ==
    /\ pc = "syntax_file" =>
          /\ issues' = issues
          /\ \/ pc' = "syntax_file" /\ file_index' \in DOMAIN critical_files
             \/ pc' = "syntax_report" /\ file_index' = Len(critical_files) + 1
    /\ pc = "syntax_report" =>
          /\ pc' = "report"
          /\ Len(issues') >= Len(issues)
          /\ SubSeq(issues', 1, Len(issues)) = issues

\* the entries are judged when validate_project has returned to main (pc = "report")
C10_SyntaxErrorsCaptured == [][C10_LoopStep /\ C10_EntriesRight]_vars

\* a read error on the first file, the second still checked and reported, the
\* third absent, after an earlier check added an issue
C10_Witness ==
    /\ pc = "done"
    /\ ManifestReadable
    /\ fs.critical[1].status = "Permission denied"
    /\ fs.critical[2].status = "ok" /\ ReportedUnbalanced(2)
    /\ fs.critical[3].status = "absent"
    /\ Len(issues) = 2
    /\ SyntaxEntriesOf(1) # {}

====
